---- MODULE Spec2Model ----
(***************************************************************************)
(* A model of legacy/createcsvs.py: main's loop over the SVG files of a    *)
(* folder, categorise_paths (the path classifier) and convert_units (the   *)
(* coordinate mapper), followed by the merge against the date lookup.      *)
(*                                                                         *)
(* A point is <<x, y>> (the complex number x + yj of svgpathtools).  A     *)
(* segment is a record [kind, start, end]; a path is a sequence of         *)
(* segments, so len(path) is Len(path).  Python lists of paths are         *)
(* modelled as sequences of indices into `paths`, so that two primitives   *)
(* with the same geometry remain two objects.  Real numbers are exact:     *)
(* native coordinates are integers and the mapper's values are reduced     *)
(* fractions <<num, den>>.                                                  *)
(***************************************************************************)
EXTENDS Integers, Sequences, FiniteSets, TLC

VARIABLES
    files,            \* os.listdir(input_folder): the batch, in iteration order
    date_lookup_df,   \* pd.read_csv(dates_file): rows [index, date]
    pc,               \* position of main: "loop", "categorised", "converted", "done", "aborted"
    k,                \* 1-based position of the for loop in files
    xlim,             \* main's local xlim      (line 54)
    y_lines,          \* main's local y_lines   (line 54)
    trend,            \* main's local trend     (line 54)
    frame,            \* locals of the last categorise_paths call at its return
    trend_converted,  \* main's local trend_converted (line 56)
    written,          \* the csv files written: file position -> rows of result_df
    error             \* the exception that ended main, or None

vars == <<files, date_lookup_df, pc, k, xlim, y_lines, trend, frame,
          trend_converted, written, error>>

None == "None"
NaN == <<"NaN">>

Y_AXIS_SPAN == 80
X_AXIS_SPAN == 42

\* ---------------------------------------------------------------- bounds
MaxFiles == 2      \* files in a batch (Spec)
MaxPaths == 6      \* primitives in a drawing (SpecClassify)
MaxCoord == 2      \* native coordinates are 0, 2, .., 2 * MaxCoord (SpecConvert)

\* ------------------------------------------------------- Python helpers
Abs(a) == IF a < 0 THEN -a ELSE a

Range(s) == {s[i] : i \in DOMAIN s}

RECURSIVE Gcd(_, _)
Gcd(a, b) == IF b = 0 THEN a ELSE Gcd(b, a % b)

\* The real number n / d (d # 0) as a reduced fraction with a positive
\* denominator, so that equal reals are equal values.
Frac(n, d) ==
    LET g == Gcd(Abs(n), Abs(d))
        s == IF d < 0 THEN -1 ELSE 1
    IN  <<(s * n) \div g, (s * d) \div g>>

\* Python 3 round() of the real n / d (d # 0): to nearest, ties to even.
round(n, d) ==
    LET nn == IF d < 0 THEN -n ELSE n
        dd == Abs(d)
        q  == nn \div dd
        r  == nn - q * dd
    IN  IF 2 * r < dd THEN q
        ELSE IF 2 * r > dd THEN q + 1
        ELSE IF q % 2 = 0 THEN q ELSE q + 1

\* list.sort(key=...) / sorted(): a stable ascending sort.  key is a
\* function on the elements of s.
RECURSIVE InsertSorted(_, _, _)
InsertSorted(s, x, key) ==
    IF s = <<>> THEN <<x>>
    ELSE IF key[s[Len(s)]] <= key[x] THEN Append(s, x)
    ELSE Append(InsertSorted(SubSeq(s, 1, Len(s) - 1), x, key), s[Len(s)])

RECURSIVE SortBy(_, _)
SortBy(s, key) ==
    IF s = <<>> THEN <<>>
    ELSE InsertSorted(SortBy(SubSeq(s, 1, Len(s) - 1), key), s[Len(s)], key)

sorted(s) == SortBy(s, [v \in Range(s) |-> v])

Reverse(s) == [i \in 1..Len(s) |-> s[Len(s) + 1 - i]]

RECURSIVE Flatten(_)
Flatten(ss) == IF ss = <<>> THEN <<>> ELSE Head(ss) \o Flatten(Tail(ss))

\* ------------------------------------------------- svgpathtools geometry
Line(p, q) == [kind |-> "Line", start |-> p, end |-> q]
CubicBezier(p, q) == [kind |-> "CubicBezier", start |-> p, end |-> q]

PathStart(path) == path[1].start
PathEnd(path) == path[Len(path)].end

\* Path.length() of a path of axis-parallel Lines (the only paths whose
\* length the program asks for are the single-segment reference lines).
RECURSIVE length(_)
length(path) ==
    IF path = <<>> THEN 0
    ELSE Abs(path[1].end[1] - path[1].start[1])
         + Abs(path[1].end[2] - path[1].start[2]) + length(Tail(path))

SetMin(S) == CHOOSE m \in S : \A v \in S : m <= v
SetMax(S) == CHOOSE m \in S : \A v \in S : m >= v

\* Path.bbox() = (xmin, xmax, ymin, ymax).  The model's cubic segments keep
\* their control points inside the box of their end points.
bbox(path) ==
    LET xs == {path[i].start[1] : i \in DOMAIN path} \cup {path[i].end[1] : i \in DOMAIN path}
        ys == {path[i].start[2] : i \in DOMAIN path} \cup {path[i].end[2] : i \in DOMAIN path}
    IN  <<SetMin(xs), SetMax(xs), SetMin(ys), SetMax(ys)>>

\* Path.continuous_subpaths(): cut wherever a segment does not start where
\* the previous one ended.
RECURSIVE SubpathsFrom(_, _, _)
SubpathsFrom(path, from, i) ==
    IF i >= Len(path) THEN <<SubSeq(path, from, Len(path))>>
    ELSE IF path[i].end # path[i + 1].start
         THEN <<SubSeq(path, from, i)>> \o SubpathsFrom(path, i + 1, i + 1)
         ELSE SubpathsFrom(path, from, i + 1)

continuous_subpaths(path) == SubpathsFrom(path, 1, 1)

\* ------------------------------------------------------ categorise_paths
\* [i for i, path in enumerate(paths) if len(path) == 1] (lines 108, 127)
single_segment_filter(paths) ==
    SelectSeq([i \in 1..Len(paths) |-> i], LAMBDA i : Len(paths[i]) = 1)

\* [path for path in paths if len(path) > 1] (line 129)
multi_segment_filter(paths) ==
    SelectSeq([i \in 1..Len(paths) |-> i], LAMBDA i : Len(paths[i]) > 1)

\* single_segment_lines.sort(key=lambda p: p.length()) (line 113)
sort_by_length(paths, lines) ==
    SortBy(lines, [i \in Range(lines) |-> length(paths[i])])

\* short_trends = single_segment_lines[:-5] (line 115)
short_trends_slice(lines) == SubSeq(lines, 1, Len(lines) - 5)

\* single_segment_lines = single_segment_lines[:5] (line 116)
candidates_slice(lines) == SubSeq(lines, 1, 5)

collapse_mid1(y) == <<y[1], y[2], y[Len(y)]>>

\* y_lines = [y_lines[0], y_lines[2], y_lines[-1]] (line 121)
collapse(y) == <<y[1], y[3], y[Len(y)]>>

wrong_count_lt3(y) == Len(y) < 3

\* the else branch of `if len(y_lines) == 3` (lines 125, 149)
wrong_count(y) == Len(y) # 3

xlim_first(paths) ==
    LET i == single_segment_filter(paths)[1]
    IN  <<PathStart(paths[i])[1], PathEnd(paths[i])[1]>>

\* [(path.start.real, path.end.real) for path in paths if len(path) == 1][1]
\* (line 127)
xlim_of(paths) ==
    LET i == single_segment_filter(paths)[2]
    IN  <<PathStart(paths[i])[1], PathEnd(paths[i])[1]>>

trends_ge1(paths, short_trends) ==
    SelectSeq([i \in 1..Len(paths) |-> i], LAMBDA i : Len(paths[i]) >= 1)
        \o short_trends

\* trends = [path for path in paths if len(path) > 1] + short_trends
\* (line 129)
trends_of(paths, short_trends) == multi_segment_filter(paths) \o short_trends

\* The points one trend contributes (the body of the loop, lines 132-143).
points_of(path) ==
    IF path[1].kind = "CubicBezier"
    THEN LET b == bbox(path)
         IN  <<  <<(b[1] + b[2]) \div 2, (b[3] + b[4]) \div 2>>  >>
    ELSE LET subs == continuous_subpaths(path)
         IN  Flatten([j \in 1..Len(subs) |->
                 [i \in 1..Len(subs[j]) |-> subs[j][i].start]
                     \o <<PathEnd(subs[j])>>])

\* categorise_paths(paths): its result, or the exception it raises, with
\* the locals it ends with.
categorise_paths(paths) ==
    LET all     == single_segment_filter(paths)
        long    == Len(all) > 5
        srt     == IF long THEN sort_by_length(paths, all) ELSE all
        short   == IF long THEN short_trends_slice(srt) ELSE <<>>
        lines   == IF long THEN candidates_slice(srt) ELSE all
        ys      == sorted([j \in 1..Len(lines) |-> PathStart(paths[lines[j]])[2]])
        y3      == IF Len(ys) = 5 THEN collapse(ys) ELSE ys
        trends  == trends_of(paths, short)
    IN  IF wrong_count(y3)
        THEN [ok |-> FALSE,
              error |-> [type |-> "ValueError", wrong_number_of_y_lines |-> Len(y3)]]
        ELSE [ok |-> TRUE,
              xlim |-> xlim_of(paths),
              y_lines |-> Reverse(sorted(y3)),
              points |-> Flatten([j \in 1..Len(trends) |-> points_of(paths[trends[j]])]),
              single_segment_lines |-> lines,
              short_trends |-> short,
              trends |-> trends]

\* --------------------------------------------------------- convert_units
\* 1 + round(xspan * ((x - xmin) / x_scale)) (line 178)
x_out(x, xmin, x_scale, xspan) == 1 + round(xspan * (x - xmin), x_scale)

y_out_flipped(y, ymid, half_spans, yspan) == Frac(2 * yspan * (y - ymid), half_spans)

\* yspan * ((ymid - y) / y_scale), with y_scale = half_spans / 2
\* (lines 171, 179)
y_out(y, ymid, half_spans, yspan) == Frac(2 * yspan * (ymid - y), half_spans)

zero_division_hoisted(points, x_scale, half_spans) == x_scale = 0 \/ half_spans = 0

\* The float divisions of lines 178 and 179 are evaluated once per point:
\* ZeroDivisionError needs a point.
zero_division(points, x_scale, half_spans) ==
    points # <<>> /\ (x_scale = 0 \/ half_spans = 0)

convert_units(points, line_y, xl, yspan, xspan) ==
    LET xmin == xl[1]
        xmax == xl[2]
        x_scale == xmax - xmin
        ymax == line_y[1]
        ymid == line_y[2]
        ymin == line_y[3]
        half_spans == Abs(ymax - ymid) + Abs(ymid - ymin)
    IN  IF zero_division(points, x_scale, half_spans)
        THEN [ok |-> FALSE, error |-> [type |-> "ZeroDivisionError"]]
        ELSE [ok |-> TRUE,
              trend_plot_coords |->
                  [i \in 1..Len(points) |->
                      <<x_out(points[i][1], xmin, x_scale, xspan),
                        y_out(points[i][2], ymid, half_spans, yspan)>>]]

\* ------------------------------------------------------ main: the merge
merge_inner(left, coords) ==
    Flatten([l \in 1..Len(left) |->
        LET hits == SelectSeq(coords, LAMBDA c : c[1] = left[l].index)
        IN  [h \in 1..Len(hits) |-> [value |-> hits[h][2], date |-> left[l].date]]])

\* pd.merge(date_lookup_df, df, left_on="index", right_on="rel_day",
\* how="left")[["value", "date"]] (lines 64-75): the rows of the lookup in
\* order, each once per matching pair, or once with a missing value.
merge_left(left, coords) ==
    Flatten([l \in 1..Len(left) |->
        LET hits == SelectSeq(coords, LAMBDA c : c[1] = left[l].index)
        IN  IF hits = <<>>
            THEN <<[value |-> NaN, date |-> left[l].date]>>
            ELSE [h \in 1..Len(hits) |-> [value |-> hits[h][2], date |-> left[l].date]]])

\* ------------------------------------------------------------ the inputs
HLine(y, sx, ex) == <<Line(<<sx, y>>, <<ex, y>>)>>
VLine(x, sy, ey) == <<Line(<<x, sy>>, <<x, ey>>)>>

\* A polyline of two connected Lines, one of two Lines that do not touch,
\* and a smooth curve of two cubic segments.
Poly(p, q, r) == <<Line(p, q), Line(q, r)>>
Broken(p, q, r, t) == <<Line(p, q), Line(r, t)>>
Smooth(p, q, r) == <<CubicBezier(p, q), CubicBezier(q, r)>>

File(paths) == [hidden |-> FALSE, paths |-> paths]
HiddenFile == [hidden |-> TRUE, paths |-> <<>>]

\* The date lookup with the given "index" column.
DateTable(idx) == [i \in 1..Len(idx) |-> [index |-> idx[i], date |-> <<"date", idx[i]>>]]

FullDateTable == DateTable([i \in 1..(X_AXIS_SPAN + 1) |-> i])

SeqsUpTo(S, n) == UNION {[1..m -> S] : m \in 0..n}

\* Whole drawings for the batch runs: three and five reference lines with a
\* trend, four lines, a vertical line at index 1, and no trend at all.
ThreeLines == <<HLine(2, 0, 8), HLine(4, 0, 8), HLine(6, 0, 8)>>

BatchDrawings ==
    { ThreeLines \o <<Poly(<<0, 4>>, <<2, 2>>, <<8, 6>>)>>,
      <<Broken(<<0, 4>>, <<4, 6>>, <<6, 2>>, <<12, 4>>)>> \o ThreeLines,
      <<HLine(0, 0, 8), HLine(2, 0, 8)>> \o ThreeLines
          \o <<Smooth(<<0, 4>>, <<4, 0>>, <<8, 6>>)>>,
      ThreeLines \o <<HLine(8, 0, 8), Poly(<<0, 4>>, <<2, 2>>, <<8, 6>>)>>,
      <<HLine(2, 0, 8), VLine(0, 4, 12), HLine(6, 0, 8),
        Poly(<<0, 4>>, <<2, 2>>, <<8, 6>>)>>,
      ThreeLines }

BatchLookups ==
    { FullDateTable, DateTable(<<1, 11, 22>>), DateTable(<<5, 43>>) }

\* Primitives for the classifier runs: reference lines of four lengths,
\* drawn in both directions, and a trend.
ClassifyPrimitives ==
    { HLine(2, 0, 8), HLine(4, 2, 6), HLine(6, 8, 2), HLine(8, 4, 6),
      Poly(<<0, 4>>, <<4, 2>>, <<8, 6>>) }

ClassifyDrawings == SeqsUpTo(ClassifyPrimitives, MaxPaths)

\* Drawings for the mapper runs: three reference lines at any heights, the
\* one at index 1 with any two ends, and at most one trend.
Coord == {2 * c : c \in 0..MaxCoord}

ConvertDrawings ==
    { <<HLine(y[1], 0, 2 * MaxCoord), HLine(y[2], x[1], x[2]),
        HLine(y[3], 0, 2 * MaxCoord)>> \o t :
        y \in [1..3 -> Coord], x \in [1..2 -> Coord],
        t \in {<<>>} \cup
              { <<Poly(<<p[1], p[3]>>, <<p[2], p[3]>>, <<p[2], 0>>)>> :
                    p \in [1..3 -> Coord] } }

\* -------------------------------------------------------------- main
InitWith(batches, lookups) ==
    /\ files \in batches
    /\ date_lookup_df \in lookups
    /\ pc = "loop"
    /\ k = 1
    /\ xlim = None
    /\ y_lines = None
    /\ trend = None
    /\ frame = None
    /\ trend_converted = None
    /\ written = <<>>
    /\ error = None

Init == InitWith(SeqsUpTo({File(d) : d \in BatchDrawings} \cup {HiddenFile}, MaxFiles),
                 BatchLookups)

InitClassify ==
    InitWith({<<File(d)>> : d \in ClassifyDrawings} \cup {<<HiddenFile>>},
             {FullDateTable})

InitConvert ==
    InitWith({<<File(d)>> : d \in ConvertDrawings} \cup {<<HiddenFile>>, <<File(<<>>)>>},
             {FullDateTable})

AtFile == pc = "loop" /\ k <= Len(files)

\* if filename.startswith("."): continue (lines 47-48)
SkipHidden ==
    /\ AtFile
    /\ files[k].hidden
    /\ k' = k + 1
    /\ UNCHANGED <<files, date_lookup_df, pc, xlim, y_lines, trend, frame,
                   trend_converted, written, error>>

\* xlim, y_lines, trend = categorise_paths(paths) (line 54)
Categorise ==
    /\ AtFile
    /\ ~files[k].hidden
    /\ LET r == categorise_paths(files[k].paths)
       IN  /\ r.ok
           /\ xlim' = r.xlim
           /\ y_lines' = r.y_lines
           /\ trend' = r.points
           /\ frame' = [single_segment_lines |-> r.single_segment_lines,
                        short_trends |-> r.short_trends,
                        trends |-> r.trends]
    /\ pc' = "categorised"
    /\ UNCHANGED <<files, date_lookup_df, k, trend_converted, written, error>>

\* categorise_paths raises (line 150); main has no handler, the run ends.
CategoriseRaises ==
    /\ AtFile
    /\ ~files[k].hidden
    /\ LET r == categorise_paths(files[k].paths)
       IN  /\ ~r.ok
           /\ error' = r.error
    /\ pc' = "aborted"
    /\ UNCHANGED <<files, date_lookup_df, k, xlim, y_lines, trend, frame,
                   trend_converted, written>>

\* trend_converted = convert_units(trend, y_lines, xlim, ...) (lines 56-58)
ConvertUnits ==
    /\ pc = "categorised"
    /\ LET r == convert_units(trend, y_lines, xlim, Y_AXIS_SPAN, X_AXIS_SPAN)
       IN  /\ r.ok
           /\ trend_converted' = r.trend_plot_coords
    /\ pc' = "converted"
    /\ UNCHANGED <<files, date_lookup_df, k, xlim, y_lines, trend, frame,
                   written, error>>

\* convert_units raises ZeroDivisionError; main has no handler.
ConvertUnitsRaises ==
    /\ pc = "categorised"
    /\ LET r == convert_units(trend, y_lines, xlim, Y_AXIS_SPAN, X_AXIS_SPAN)
       IN  /\ ~r.ok
           /\ error' = r.error
    /\ pc' = "aborted"
    /\ UNCHANGED <<files, date_lookup_df, k, xlim, y_lines, trend, frame,
                   trend_converted, written>>

\* The DataFrame, the merge and to_csv (lines 60-82), and the next file.
WriteCsv ==
    /\ pc = "converted"
    /\ written' = [j \in DOMAIN written \cup {k} |->
                      IF j = k THEN merge_left(date_lookup_df, trend_converted)
                      ELSE written[j]]
    /\ k' = k + 1
    /\ pc' = "loop"
    /\ UNCHANGED <<files, date_lookup_df, xlim, y_lines, trend, frame,
                   trend_converted, error>>

\* The for loop is exhausted: main returns.
Finish ==
    /\ pc = "loop"
    /\ k > Len(files)
    /\ pc' = "done"
    /\ UNCHANGED <<files, date_lookup_df, k, xlim, y_lines, trend, frame,
                   trend_converted, written, error>>

Next ==
    \/ SkipHidden
    \/ Categorise
    \/ CategoriseRaises
    \/ ConvertUnits
    \/ ConvertUnitsRaises
    \/ WriteCsv
    \/ Finish

Spec == Init /\ [][Next]_vars
SpecClassify == InitClassify /\ [][Next]_vars
SpecConvert == InitConvert /\ [][Next]_vars

\* ------------------------------------------------------------ the claims
\* The drawing main is at, and its single-segment primitives.
Cur == files[k].paths
AtDrawing == k <= Len(files) /\ ~files[k].hidden
Categorised == AtDrawing /\ pc = "categorised"
Singles == {i \in DOMAIN Cur : Len(Cur[i]) = 1}
Multis == {i \in DOMAIN Cur : Len(Cur[i]) > 1}
NumSingles == Cardinality(Singles)
StartY(i) == Cur[i][1].start[2]
StartYs == {StartY(i) : i \in Singles}
AtMost(m) == Cardinality({i \in Singles : StartY(i) <= m})
AtLeast(m) == Cardinality({i \in Singles : StartY(i) >= m})
Median(m) == 2 * AtMost(m) > NumSingles /\ 2 * AtLeast(m) > NumSingles

\* C1: with exactly 3 or exactly 5 single-segment primitives
\* categorise_paths does not raise, and the Reference Triple it returns is
\* [max, median, min] of their start-y values, so upper >= baseline >= lower.
C1_ReferenceTriple ==
    (AtDrawing /\ NumSingles \in {3, 5}) =>
        /\ ~(pc = "aborted" /\ error.type = "ValueError")
        /\ pc \in {"categorised", "converted"} =>
            /\ Len(y_lines) = 3
            /\ y_lines[1] = SetMax(StartYs)
            /\ y_lines[2] \in StartYs /\ Median(y_lines[2])
            /\ y_lines[3] = SetMin(StartYs)
            /\ y_lines[1] >= y_lines[2] /\ y_lines[2] >= y_lines[3]

\* Five lines at four heights: the triple is strictly ordered and one
\* start-y is left out of it.
C1_Witness ==
    /\ Categorised /\ NumSingles = 5
    /\ y_lines[1] > y_lines[2] /\ y_lines[2] > y_lines[3]
    /\ \E i \in Singles : StartY(i) \notin Range(y_lines)

\* The start-y values at ranks 1 and 3 (0-based) of the ascending sort.
RankY(r) == sorted([j \in 1..Len(single_segment_filter(Cur)) |->
                        StartY(single_segment_filter(Cur)[j])])[r + 1]

\* C2, as claimed: with exactly 5 single-segment primitives the two whose
\* start-y is left out of the Reference Triple are among the trends whose
\* sample points categorise_paths returns.
C2_ExcludedLinesAreSampled ==
    (Categorised /\ NumSingles = 5) =>
        \E i, j \in Singles :
            /\ i # j
            /\ StartY(i) = RankY(1) /\ StartY(j) = RankY(3)
            /\ {i, j} \subseteq Range(frame.trends)

\* C2, amended: with exactly 5 single-segment primitives no single-segment
\* primitive is a trend: the trends are the multi-segment primitives, and
\* every sample point is a point of one of them.
C2_ExcludedLinesAreDropped ==
    (Categorised /\ NumSingles = 5) =>
        /\ Range(frame.trends) = Multis
        /\ frame.short_trends = <<>>
        /\ \A q \in Range(trend) : \E i \in Multis : q \in Range(points_of(Cur[i]))
        /\ (Multis = {}) => (trend = <<>>)

C2_Witness ==
    /\ Categorised /\ NumSingles = 5
    /\ trend # <<>>
    /\ \E i \in Singles : StartY(i) \notin Range(y_lines)

\* C4: with 0, 1, 2 or 4 single-segment primitives categorise_paths raises
\* ValueError naming that count, and main receives no xlim, y_lines or trend.
C4_WrongCountRaises ==
    [][(AtFile /\ ~files[k].hidden /\ NumSingles \in {0, 1, 2, 4}) =>
          /\ pc' = "aborted"
          /\ error' = [type |-> "ValueError", wrong_number_of_y_lines |-> NumSingles]
          /\ UNCHANGED <<xlim, y_lines, trend, trend_converted, written>>]_vars

C4_Witness ==
    /\ pc = "aborted"
    /\ NumSingles = 4
    /\ error = [type |-> "ValueError", wrong_number_of_y_lines |-> 4]
    /\ xlim = None /\ y_lines = None /\ trend = None

\* C8, as claimed: with more than 5 single-segment primitives the
\* candidates are 5 of them and no other is longer than a candidate, the
\* trend fragments are exactly the others, and no candidate is a trend.
C8_FiveLongestAreCandidates ==
    (Categorised /\ NumSingles > 5) =>
        LET cand == Range(frame.single_segment_lines)
            frag == Range(frame.short_trends)
        IN  /\ cand \subseteq Singles
            /\ Cardinality(cand) = 5
            /\ \A c \in cand : \A o \in Singles \ cand :
                   length(Cur[c]) >= length(Cur[o])
            /\ frag = Singles \ cand
            /\ Range(frame.trends) = Multis \cup frag

\* The primitive at index 1 of the single-segment primitives in drawing
\* order: the one with exactly one single-segment primitive before it.
IsSecondSingle(i) ==
    i \in Singles /\ Cardinality({j \in Singles : j < i}) = 1

XLimitsFromCandidate ==
    \E i \in Singles :
        /\ IsSecondSingle(i)
        /\ xlim = <<Cur[i][1].start[1], Cur[i][1].end[1]>>
        /\ i \in Range(frame.single_segment_lines)
        /\ i \notin Range(frame.short_trends)

\* C10, as claimed: on every successful classification XLimits is the
\* (start.x, end.x) of the second single-segment primitive, which is a
\* retained candidate and no trend fragment.
C10_XLimitsAlwaysFromCandidate == Categorised => XLimitsFromCandidate

\* C10, amended: this holds when the drawing has exactly 3 or 5
\* single-segment primitives.
C10_XLimitsFromCandidateUpTo5 ==
    (Categorised /\ NumSingles \in {3, 5}) => XLimitsFromCandidate

\* The second line is drawn right to left and is not the first line's twin.
C10_Witness ==
    /\ Categorised /\ NumSingles = 5
    /\ xlim = <<8, 2>>
    /\ \E i \in Singles :
           /\ \A j \in Singles : i <= j
           /\ <<Cur[i][1].start[1], Cur[i][1].end[1]>> # xlim

\* ---------------------------------------------------- the mapper's claims
Symmetric ==
    /\ y_lines[1] > y_lines[2] /\ y_lines[2] > y_lines[3]
    /\ y_lines[1] - y_lines[2] = y_lines[2] - y_lines[3]

MapsLines(top, bottom) ==
    \A i \in DOMAIN trend :
        /\ trend[i][2] = y_lines[1] => trend_converted[i][2] = <<top, 1>>
        /\ trend[i][2] = y_lines[2] => trend_converted[i][2] = <<0, 1>>
        /\ trend[i][2] = y_lines[3] => trend_converted[i][2] = <<bottom, 1>>

\* C3, as claimed: a sample on the first line of a symmetric Reference
\* Triple (the largest native y) maps to +yspan, one on the baseline to 0,
\* one on the last line to -yspan.
C3_UpperMapsToPlusSpan ==
    (pc = "converted" /\ Symmetric) => MapsLines(Y_AXIS_SPAN, -Y_AXIS_SPAN)

\* C3, amended: a sample on the first line (the largest native y) maps to
\* -yspan, one on the baseline to 0, one on the last line to +yspan.
C3_UpperMapsToMinusSpan ==
    (pc = "converted" /\ Symmetric) => MapsLines(-Y_AXIS_SPAN, Y_AXIS_SPAN)

C3_Witness ==
    /\ pc = "converted" /\ Symmetric
    /\ \E i \in DOMAIN trend : trend[i][2] = y_lines[1]
    /\ \E i \in DOMAIN trend : trend[i][2] = y_lines[3]

\* C6, as claimed: after convert_units, samples with increasing native x
\* have non-decreasing day offsets.
C6_DayOffsetMonotone ==
    pc = "converted" =>
        \A i, j \in DOMAIN trend :
            trend[i][1] < trend[j][1] => trend_converted[i][1] <= trend_converted[j][1]

Degenerate ==
    \/ xlim[1] = xlim[2]
    \/ y_lines[1] = y_lines[2] /\ y_lines[2] = y_lines[3]

\* C9, as claimed: convert_units never returns once the reference geometry
\* is degenerate.
C9_DegenerateAlwaysFatal ==
    [][(pc = "categorised" /\ Degenerate) =>
          /\ pc' = "aborted"
          /\ error' = [type |-> "ZeroDivisionError"]
          /\ UNCHANGED trend_converted]_vars

\* C9, amended: with degenerate reference geometry convert_units raises
\* ZeroDivisionError and returns nothing for every nonempty sample
\* sequence, and returns the empty sequence for the empty one.
C9_DegenerateFatalUnlessEmpty ==
    [][(pc = "categorised" /\ Degenerate) =>
          IF trend = <<>>
          THEN pc' = "converted" /\ trend_converted' = <<>>
          ELSE /\ pc' = "aborted"
               /\ error' = [type |-> "ZeroDivisionError"]
               /\ UNCHANGED <<trend_converted, written>>]_vars

C9_Witness ==
    /\ pc = "aborted" /\ error = [type |-> "ZeroDivisionError"]
    /\ Degenerate /\ trend # <<>>
    /\ trend_converted = None

\* ------------------------------------------------------- main's claims
Classifiable(f) == categorise_paths(f.paths).ok

Processable(f) ==
    /\ Classifiable(f)
    /\ LET r == categorise_paths(f.paths)
       IN  convert_units(r.points, r.y_lines, r.xlim, Y_AXIS_SPAN, X_AXIS_SPAN).ok

\* C5, as claimed: when main has ended, every drawing that comes after one
\* that failed classification, and can itself be classified and mapped,
\* has been written.
C5_LaterDrawingsWritten ==
    pc \in {"done", "aborted"} =>
        \A i, j \in DOMAIN files :
            (/\ i < j
             /\ ~files[i].hidden /\ ~Classifiable(files[i])
             /\ ~files[j].hidden /\ Processable(files[j]))
                => j \in DOMAIN written

\* The table main has just written, and the pairs it was made from.
JustWritten == pc = "loop" /\ k > 1 /\ (k - 1) \in DOMAIN written
Rows == Range(written[k - 1])
Pairs == Range(trend_converted)
Lookup == Range(date_lookup_df)

\* C7, as claimed: every pair of convert_units is a row, with the date of
\* its day offset, or a missing date when the lookup has none.
C7_EveryPairIsARow ==
    JustWritten =>
        \A c \in Pairs : \E r \in Rows :
            /\ r.value = c[2]
            /\ IF \E l \in Lookup : l.index = c[1]
               THEN \E l \in Lookup : l.index = c[1] /\ r.date = l.date
               ELSE r.date = NaN

\* C7, amended: the join is a left join from the date lookup.  Every row
\* of the lookup appears, with the value of each pair whose day offset it
\* has, or a missing value when there is none; a pair appears iff the
\* lookup has its day offset, and no row has a missing date.
C7_EveryLookupRowIsARow ==
    JustWritten =>
        /\ \A l \in Lookup : \E r \in Rows : r.date = l.date
        /\ \A c \in Pairs :
               (\E l \in Lookup : l.index = c[1]) =>
                   \E r \in Rows, l \in Lookup :
                       l.index = c[1] /\ r.date = l.date /\ r.value = c[2]
        /\ \A r \in Rows : \E l \in Lookup :
               /\ r.date = l.date
               /\ IF \E c \in Pairs : c[1] = l.index
                  THEN \E c \in Pairs : c[1] = l.index /\ r.value = c[2]
                  ELSE r.value = NaN

\* Some pair has a day the lookup lacks, and the lookup a day no pair has.
C7_Witness ==
    /\ JustWritten
    /\ \E c \in Pairs : \A l \in Lookup : l.index # c[1]
    /\ \E l \in Lookup : \A c \in Pairs : l.index # c[1]
    /\ \E c \in Pairs : \E l \in Lookup : l.index = c[1]
====
